---- MODULE Spec2Model ----
(***************************************************************************)
(* tcpping (src/tcpping.c): one TCP "ping" per loop iteration, made of a   *)
(* non-blocking connect with a bounded select, and the running statistics  *)
(* main keeps over the stream of results.                                  *)
(*                                                                         *)
(* The C doubles are modelled as binary floating-point numbers of reduced  *)
(* width: a value is a natural number of units of 2^-FracBits with at most *)
(* MantBits significant bits, and every arithmetic operation rounds its    *)
(* exact result to the nearest such number, ties to even, as IEEE-754      *)
(* does for binary64 (53 significant bits).                                *)
(***************************************************************************)
EXTENDS Integers, Sequences, FiniteSets, TLC

\* ------------------------------------------------------------------ bounds
MaxProbes  == 3   \* probes performed in a run (caps the unlimited loop)
MaxCount   == 2   \* largest -c COUNT drawn (0 = unlimited)
MaxSkip    == 1   \* largest -s COUNT drawn
MaxTimeout == 2   \* largest -t SEC drawn
MantBits   == 5   \* significant bits of a modelled double
FracBits   == 7   \* a modelled double is a multiple of 2^-FracBits
FdLimit    == 2   \* sockets the process can hold open (RLIMIT_NOFILE)

\* ------------------------------------------------------- double arithmetic
\* 2^k
Pow2[k \in Int] == IF k <= 0 THEN 1 ELSE 2 * Pow2[k - 1]

\* The number of bits of n
BitLen[n \in Int] == IF n <= 0 THEN 0 ELSE 1 + BitLen[n \div 2]

\* 1.0 as a modelled double
One == Pow2[FracBits]

\* The result of a division by zero (IEEE inf or NaN), which is not a number
\* of the model: a value below every number and every sentinel.
NaN == 0 - 8 * One

\* The spacing of the modelled doubles around the integer q (in units).
Ulp[q \in Int] == Pow2[BitLen[q] - MantBits]

\* The modelled double nearest to num/den (num >= 0, den > 0), ties to even.
RoundQ[num \in Int, den \in Int] ==
    LET q     == num \div den
        g     == Ulp[q]
        lo    == (q \div g) * g
        hi    == lo + g
        twice == 2 * (num - lo * den)
        half  == g * den
    IN  IF twice < half THEN lo
        ELSE IF twice > half THEN hi
        ELSE IF (lo \div g) % 2 = 0 THEN lo ELSE hi

\* (double)k for an int k >= 0
IntToD(k) == RoundQ[k * One, 1]

\* a + b, a * b, a / b and |a - b| on doubles a, b >= 0
FAdd(a, b) == RoundQ[a + b, 1]
FMul(a, b) == RoundQ[a * b, One]
FDiv(a, b) == IF b = 0 THEN NaN ELSE RoundQ[a * One, b]
FAbsDiff(a, b) == RoundQ[IF a >= b THEN a - b ELSE b - a, 1]

\* ------------------------------------------------------------ values
\* tcp_ping returns -1 on timeout and -2 on failure connecting.
RTimeout   == 0 - One
RConnError == 0 - 2 * One

\* prev_rtt before the first success
NoPrev == 0 - One

\* 100, the percent factor of ping_loss
Hundred == IntToD(100)

\* Elapsed times t2 - t1 (ms, as doubles) the monotonic clock can give a
\* completed handshake; 0 when both readings are the same clock tick.
RttVals == {0, IntToD(10), IntToD(11), IntToD(15), IntToD(20)}

\* What the target does with the SYN of one probe.
Nets == {"accept", "refuse", "drop", "unreach"}

\* exit_status while the process runs
Running == 0 - 1

VARIABLES
    pc,            \* where main is: "loop", "socket", "connect", "select",
                   \* "stamp", "record", "sleep", "summary", "done", "exited"
    terminate,     \* global terminate
    timeout,       \* global timeout (seconds)
    count, countdown, skip, seq,
    rtt,           \* main's rtt: the last value tcp_ping returned
    stat_sum, stat_min, stat_max, stat_ave, stat_count,
    ping_count, ping_success, ping_fail, ping_loss,
    prev_rtt, jitter, jitter_total, jitter_count,
    status, errno, optval, tv,   \* tcp_ping's status, errno, optval, tv.tv_sec
    open,          \* sockets of the process that are open
    exit_status,   \* Running, or the status the process ended with
    net,           \* the target's behaviour for the probe in flight
    waited,        \* seconds the probe in flight has been blocked in select
    skip0,         \* the skip count given on the command line
    hist           \* the values recorded (not skipped), in order

vars == <<pc, terminate, timeout, count, countdown, skip, seq, rtt,
          stat_sum, stat_min, stat_max, stat_ave, stat_count,
          ping_count, ping_success, ping_fail, ping_loss,
          prev_rtt, jitter, jitter_total, jitter_count,
          status, errno, optval, tv, open, exit_status, net, waited,
          skip0, hist>>

stats == <<stat_sum, stat_min, stat_max, stat_ave, stat_count,
           ping_count, ping_success, ping_fail, ping_loss,
           prev_rtt, jitter, jitter_total, jitter_count>>

locals == <<status, errno, optval, tv>>

config == <<timeout, count, skip0>>

\* ------------------------------------------------------------ statistics
\* main's statistics variables as one record
ZeroStats ==
    [stat_sum |-> 0, stat_min |-> 0, stat_max |-> 0, stat_ave |-> 0,
     stat_count |-> 0, ping_count |-> 0, ping_success |-> 0, ping_fail |-> 0,
     ping_loss |-> 0, prev_rtt |-> NoPrev, jitter |-> 0, jitter_total |-> 0,
     jitter_count |-> 0]

Stats ==
    [stat_sum |-> stat_sum, stat_min |-> stat_min, stat_max |-> stat_max,
     stat_ave |-> stat_ave, stat_count |-> stat_count,
     ping_count |-> ping_count, ping_success |-> ping_success,
     ping_fail |-> ping_fail, ping_loss |-> ping_loss, prev_rtt |-> prev_rtt,
     jitter |-> jitter, jitter_total |-> jitter_total,
     jitter_count |-> jitter_count]

\* The test "rtt > 0" that tells a success from a failure.
IsSuccess(r) == r > 0

\* Average with the count off by one.
Average_OffByOne(sum, n) == FDiv(sum, IntToD(n + 1))

\* stat_ave = stat_sum / stat_count
Average(sum, n) == FDiv(sum, IntToD(n))

\* ping_loss = (double)ping_fail / (double)ping_count * 100
Loss(fail, n) == FMul(FDiv(IntToD(fail), IntToD(n)), Hundred)

\* PingFail counting only the negative results as failures.
PingFail_NegativeOnly(fail, r) == IF r < 0 THEN fail + 1 ELSE fail

\* ping_fail after a result r: the else branch of "rtt > 0" adds one.
PingFail(fail, r) == IF IsSuccess(r) THEN fail ELSE fail + 1

\* Success with a jitter term taken at the first success as well, against
\* the -1 prev_rtt starts with.
Success_JitterFromFirst(s, r) ==
    LET n      == s.stat_count + 1
        sum    == FAdd(s.stat_sum, r)
        total  == FAdd(s.jitter_total, FAbsDiff(s.prev_rtt, r))
        seeded == n = 1
        min0   == IF seeded THEN r ELSE s.stat_min
        max0   == IF seeded THEN r ELSE s.stat_max
    IN  [s EXCEPT
           !.ping_success = @ + 1,
           !.stat_sum     = sum,
           !.stat_count   = n,
           !.prev_rtt     = r,
           !.jitter_total = total,
           !.jitter_count = @ + 1,
           !.jitter       = FDiv(total, IntToD(s.jitter_count + 1)),
           !.stat_min     = IF r < min0 THEN r ELSE min0,
           !.stat_max     = IF r > max0 THEN r ELSE max0,
           !.stat_ave     = Average(sum, n)]

\* The branch "rtt > 0" of the statistics update: the sum and the count, the
\* jitter (from the second success on), stat_min and stat_max (set to r at
\* the first success, then lowered and raised by r), and stat_ave.
Success(s, r) ==
    LET n      == s.stat_count + 1
        sum    == FAdd(s.stat_sum, r)
        first  == s.prev_rtt = NoPrev
        total  == FAdd(s.jitter_total, FAbsDiff(s.prev_rtt, r))
        seeded == n = 1
        min0   == IF seeded THEN r ELSE s.stat_min
        max0   == IF seeded THEN r ELSE s.stat_max
    IN  [s EXCEPT
           !.ping_success = @ + 1,
           !.stat_sum     = sum,
           !.stat_count   = n,
           !.prev_rtt     = r,
           !.jitter_total = IF first THEN @ ELSE total,
           !.jitter_count = IF first THEN @ ELSE @ + 1,
           !.jitter       = IF first THEN @
                            ELSE FDiv(total, IntToD(s.jitter_count + 1)),
           !.stat_min     = IF r < min0 THEN r ELSE min0,
           !.stat_max     = IF r > max0 THEN r ELSE max0,
           !.stat_ave     = Average(sum, n)]

\* The statistics after a result r that is not skipped.
Update(s, r) ==
    LET b == IF IsSuccess(r) THEN Success(s, r) ELSE s
    IN  [b EXCEPT
           !.ping_count = @ + 1,
           !.ping_fail  = PingFail(@, r),
           !.ping_loss  = Loss(PingFail(s.ping_fail, r), s.ping_count + 1)]

SetStats(s) ==
    /\ stat_sum' = s.stat_sum         /\ stat_min' = s.stat_min
    /\ stat_max' = s.stat_max         /\ stat_ave' = s.stat_ave
    /\ stat_count' = s.stat_count     /\ ping_count' = s.ping_count
    /\ ping_success' = s.ping_success /\ ping_fail' = s.ping_fail
    /\ ping_loss' = s.ping_loss       /\ prev_rtt' = s.prev_rtt
    /\ jitter' = s.jitter             /\ jitter_total' = s.jitter_total
    /\ jitter_count' = s.jitter_count

\* ------------------------------------------------------------------ init
Init ==
    /\ pc = "loop"
    /\ terminate = FALSE
    /\ timeout \in 0..MaxTimeout
    /\ count \in 0..MaxCount
    /\ countdown = count
    /\ skip \in 0..MaxSkip
    /\ skip0 = skip
    /\ seq = 0
    /\ rtt = 0              \* not set; read only after tcp_ping has set it
    /\ stat_sum = 0 /\ stat_min = 0 /\ stat_max = 0 /\ stat_ave = 0
    /\ stat_count = 0
    /\ ping_count = 0 /\ ping_success = 0 /\ ping_fail = 0 /\ ping_loss = 0
    /\ prev_rtt = NoPrev /\ jitter = 0 /\ jitter_total = 0
    /\ jitter_count = 0
    /\ status = 0 /\ errno = "none" /\ optval = "none" /\ tv = 0
    /\ open = 0
    /\ exit_status = Running
    /\ net = "none"
    /\ waited = 0
    /\ hist = <<>>

\* --------------------------------------------------------------- actions
\* signal_handler, between two system calls of the program.
signal_handler ==
    /\ pc \notin {"done", "exited"}
    /\ terminate' = TRUE
    /\ UNCHANGED <<pc, config, countdown, skip, seq, rtt, stats, locals,
                   open, exit_status, net, waited, hist>>

\* The test of the while loop; the call of tcp_ping when it holds.
LoopTest ==
    /\ pc = "loop"
    /\ IF ~terminate /\ (count = 0 \/ countdown # 0)
       THEN /\ seq < MaxProbes
            /\ pc' = "socket"
            /\ net' \in Nets
       ELSE /\ pc' = "summary"
            /\ net' = net
    /\ UNCHANGED <<terminate, config, countdown, skip, seq, rtt, stats,
                   locals, open, exit_status, waited, hist>>

\* The descriptor table of the process has room for one more socket.
DescriptorFree == open < FdLimit

\* socket() succeeds, which takes a free descriptor: the socket is made
\* non-blocking and tv is set.
SocketOk ==
    /\ pc = "socket"
    /\ DescriptorFree
    /\ open' = open + 1
    /\ tv' = timeout
    /\ pc' = "connect"
    /\ UNCHANGED <<terminate, config, countdown, skip, seq, rtt, stats,
                   status, errno, optval, exit_status, net, waited, hist>>

\* socket() fails (EMFILE with no descriptor free, or ENOBUFS, ENOMEM at any
\* time): "Socket creation failed!" and exit(0).
SocketFail ==
    /\ pc = "socket"
    /\ pc' = "exited"
    /\ exit_status' = 0
    /\ UNCHANGED <<terminate, config, countdown, skip, seq, rtt, stats,
                   locals, open, net, waited, hist>>

\* connect() returns 0: the handshake was done within the call.
ConnectDone ==
    /\ pc = "connect"
    /\ net = "accept"
    /\ status' = 0
    /\ pc' = "stamp"
    /\ UNCHANGED <<terminate, config, countdown, skip, seq, rtt, stats,
                   errno, optval, tv, open, exit_status, net, waited, hist>>

\* connect() returns -1 with EINPROGRESS: on to the select loop.
ConnectInProgress ==
    /\ pc = "connect"
    /\ status' = 0 - 1
    /\ errno' = "EINPROGRESS"
    /\ pc' = "select"
    /\ UNCHANGED <<terminate, config, countdown, skip, seq, rtt, stats,
                   optval, tv, open, exit_status, net, waited, hist>>

\* ConnectFail with the wrong return value: -1 where the code returns -2.
ConnectFail_ReturnsTimeout ==
    /\ pc = "connect"
    /\ \/ net = "refuse" /\ errno' = "ECONNREFUSED"
       \/ net = "unreach" /\ errno' = "ENETUNREACH"
    /\ status' = 0 - 1
    /\ rtt' = RTimeout
    /\ pc' = "record"
    /\ UNCHANGED <<terminate, config, countdown, skip, seq, stats,
                   optval, tv, open, exit_status, net, waited, hist>>

\* connect() returns -1 with another errno: return -2.
ConnectFail ==
    /\ pc = "connect"
    /\ \/ net = "refuse" /\ errno' = "ECONNREFUSED"
       \/ net = "unreach" /\ errno' = "ENETUNREACH"
    /\ status' = 0 - 1
    /\ rtt' = RConnError
    /\ pc' = "record"
    /\ UNCHANGED <<terminate, config, countdown, skip, seq, stats,
                   optval, tv, open, exit_status, net, waited, hist>>

\* select() returns > 0: the socket is writable, with the connection made or
\* with its error pending in SO_ERROR; getsockopt reads it and the loop ends.
SelectWritable ==
    /\ pc = "select"
    /\ net # "drop"
    /\ status' = 1
    /\ optval' = CASE net = "accept"  -> "0"
                   [] net = "refuse"  -> "ECONNREFUSED"
                   [] net = "unreach" -> "EHOSTUNREACH"
    /\ \E e \in 0..tv : waited' = waited + e /\ tv' = tv - e
    /\ pc' = "stamp"
    /\ UNCHANGED <<terminate, config, countdown, skip, seq, rtt, stats,
                   errno, open, exit_status, net, hist>>

\* SelectExpired with the two return values swapped: -2 when time runs out.
SelectExpired_ReturnsError ==
    /\ pc = "select"
    /\ status' = 0
    /\ waited' = waited + tv
    /\ tv' = 0
    /\ rtt' = RConnError
    /\ pc' = "record"
    /\ UNCHANGED <<terminate, config, countdown, skip, seq, stats,
                   errno, optval, open, exit_status, net, hist>>

\* select() returns 0 after tv seconds: return -1.
SelectExpired ==
    /\ pc = "select"
    /\ status' = 0
    /\ waited' = waited + tv
    /\ tv' = 0
    /\ rtt' = RTimeout
    /\ pc' = "record"
    /\ UNCHANGED <<terminate, config, countdown, skip, seq, stats,
                   errno, optval, open, exit_status, net, hist>>

\* SIGINT or SIGTERM while select() waits: signal_handler runs and select
\* returns -1 with EINTR; neither "status < 0 && errno != EINTR" nor
\* "status > 0" holds, so the final else returns -1.
SelectInterrupted ==
    /\ pc = "select"
    /\ terminate' = TRUE
    /\ status' = 0 - 1
    /\ errno' = "EINTR"
    /\ \E e \in 0..tv : waited' = waited + e /\ tv' = tv - e
    /\ rtt' = RTimeout
    /\ pc' = "record"
    /\ UNCHANGED <<config, countdown, skip, seq, stats,
                   optval, open, exit_status, net, hist>>

\* select() returns -1 with another errno: return -2.
SelectFail ==
    /\ pc = "select"
    /\ status' = 0 - 1
    /\ errno' = "ENOMEM"
    /\ rtt' = RConnError
    /\ pc' = "record"
    /\ UNCHANGED <<terminate, config, countdown, skip, seq, stats,
                   optval, tv, open, exit_status, net, waited, hist>>

\* After the if: the second clock reading, close(sock), and the elapsed
\* time returned.
ReturnRtt ==
    /\ pc = "stamp"
    /\ open' = open - 1
    /\ rtt' \in RttVals
    /\ pc' = "record"
    /\ UNCHANGED <<terminate, config, countdown, skip, seq, stats,
                   locals, exit_status, net, waited, hist>>

\* Record with seq advanced only for the results that are counted.
Record_SeqSkipsWindow ==
    /\ pc = "record"
    /\ IF skip # 0
       THEN /\ skip' = skip - 1
            /\ UNCHANGED <<seq, stats, hist>>
       ELSE /\ seq' = seq + 1
            /\ \E s \in {Update(Stats, rtt)} : SetStats(s)
            /\ hist' = Append(hist, rtt)
            /\ skip' = skip
    /\ countdown' = countdown - 1
    /\ pc' = IF countdown' # 0 THEN "sleep" ELSE "loop"
    /\ status' = 0 /\ errno' = "none" /\ optval' = "none" /\ tv' = 0
    /\ net' = "none"
    /\ waited' = 0
    /\ UNCHANGED <<terminate, config, rtt, open, exit_status>>

\* Record with the skip window ignored by the statistics: a skipped result
\* is counted as well.
Record_CountsSkipped ==
    /\ pc = "record"
    /\ seq' = seq + 1
    /\ \E s \in {Update(Stats, rtt)} : SetStats(s)
    /\ hist' = Append(hist, rtt)
    /\ skip' = IF skip # 0 THEN skip - 1 ELSE skip
    /\ countdown' = countdown - 1
    /\ pc' = IF countdown' # 0 THEN "sleep" ELSE "loop"
    /\ status' = 0 /\ errno' = "none" /\ optval' = "none" /\ tv' = 0
    /\ net' = "none"
    /\ waited' = 0
    /\ UNCHANGED <<terminate, config, rtt, open, exit_status>>

\* The loop body after tcp_ping returned: seq++, the statistics update and
\* countdown--; sleep(interval) follows unless countdown reached 0.  What
\* tcp_ping left in its locals is dead by now and is cleared here.
Record ==
    /\ pc = "record"
    /\ seq' = seq + 1
    /\ IF skip # 0
       THEN /\ skip' = skip - 1
            /\ UNCHANGED <<stats, hist>>
       ELSE /\ \E s \in {Update(Stats, rtt)} : SetStats(s)
            /\ hist' = Append(hist, rtt)
            /\ skip' = skip
    /\ countdown' = countdown - 1
    /\ pc' = IF countdown' # 0 THEN "sleep" ELSE "loop"
    /\ status' = 0 /\ errno' = "none" /\ optval' = "none" /\ tv' = 0
    /\ net' = "none"
    /\ waited' = 0
    /\ UNCHANGED <<terminate, config, rtt, open, exit_status>>

\* sleep(interval) returns, after the interval or cut short by a signal.
Sleep ==
    /\ pc = "sleep"
    /\ pc' = "loop"
    /\ UNCHANGED <<terminate, config, countdown, skip, seq, rtt, stats,
                   locals, open, exit_status, net, waited, hist>>

\* The statistics are printed and main returns 0.
Summary ==
    /\ pc = "summary"
    /\ pc' = "done"
    /\ exit_status' = 0
    /\ UNCHANGED <<terminate, config, countdown, skip, seq, rtt, stats,
                   locals, open, net, waited, hist>>

\* One step inside tcp_ping.
ProbeStep ==
    \/ SocketOk
    \/ SocketFail
    \/ ConnectDone
    \/ ConnectInProgress
    \/ ConnectFail
    \/ SelectWritable
    \/ SelectExpired
    \/ SelectInterrupted
    \/ SelectFail
    \/ ReturnRtt

Next ==
    \/ signal_handler
    \/ LoopTest
    \/ ProbeStep
    \/ Record
    \/ Sleep
    \/ Summary

Spec == Init /\ [][Next]_vars

\* The process keeps running: a system call that can return does return
\* (select at the latest when tv has run out), and main goes on.
FairSpec == Spec /\ WF_vars(LoopTest \/ ProbeStep \/ Record \/ Sleep \/ Summary)

InProbe == pc \in {"socket", "connect", "select", "stamp"}

\* ---------------------------------------------------------------- claims
\* The probe has returned to main, which has not yet recorded the result.
Returned == pc = "record"

\* The refusal of the connection was reported to the probe: by connect, or
\* as the pending error of the socket select found writable.
RefusalReported ==
    \/ status < 0 /\ errno = "ECONNREFUSED"
    \/ status > 0 /\ optval = "ECONNREFUSED"

\* C1: a probe whose connection attempt was refused, whether connect
\* reported the refusal or the socket became writable with the refusal as
\* its pending error, returns ConnectionError (-2), never Timeout.
C1_RefusedIsConnectionError ==
    (Returned /\ RefusalReported) => rtt = RConnError

\* C2: when select is interrupted by a signal (EINTR) the wait is retried
\* with the remaining budget: the step that takes the interruption leaves
\* the probe in the wait, it does not return a result to main.
C2_InterruptedWaitRetried ==
    [][(pc = "select" /\ status' < 0 /\ errno' = "EINTR")
         => (pc' = "select" /\ rtt' = rtt)]_vars

\* Between two probes: main is outside tcp_ping and still running.
BetweenProbes == pc \in {"loop", "record", "sleep", "summary", "done"}

\* C3: the socket of a probe is closed before tcp_ping returns, on every
\* return path: between probes no socket is open.
C3_NoSocketOutlivesProbe == BetweenProbes => open = 0

\* select ran out of time: it returned 0 after a connect in progress.
WaitExpired == Returned /\ status = 0 /\ errno = "EINPROGRESS"

\* C4: every probe comes to an end (it returns, or socket creation ends the
\* program); the time it is blocked in select never exceeds the configured
\* timeout; and a wait that ran out without the socket becoming writable
\* makes the result exactly Timeout (-1).
C4_ProbeBoundedAndTimeout ==
    /\ [](waited <= timeout)
    /\ [](WaitExpired => (rtt = RTimeout /\ waited = timeout))
    /\ (InProbe ~> ~InProbe)

C4_Witness ==
    WaitExpired /\ rtt = RTimeout /\ timeout > 0 /\ waited = timeout

\* C5: when socket creation fails the program stops at once with a non-zero
\* exit status, with no result produced for the probe and no statistic
\* updated.
C5_SocketFailureStopsNonZero ==
    [][pc' = "exited"
         => /\ exit_status' # 0 /\ exit_status' # Running
            /\ UNCHANGED <<rtt, seq, stats, skip, hist>>]_vars

\* The step of main that records the result of a probe that is not skipped.
RecordsNow == pc = "record" /\ pc' # "record" /\ skip = 0

\* C6: recording a Success(rtt), for any rtt >= 0, that is not skipped adds
\* one to success_count and rtt to sum_rtt and leaves fail_count as it is;
\* only Timeout and ConnectionError add to fail_count.
C6_SuccessCounted ==
    [][RecordsNow =>
         IF rtt >= 0
         THEN /\ ping_success' = ping_success + 1
              /\ stat_sum' = FAdd(stat_sum, rtt)
              /\ ping_fail' = ping_fail
         ELSE /\ ping_fail' = ping_fail + 1
              /\ ping_success' = ping_success
              /\ stat_sum' = stat_sum]_vars

\* C7: in every reachable state total_count = success_count + fail_count.
C7_TotalIsSuccessPlusFail == ping_count = ping_success + ping_fail

C7_Witness ==
    /\ skip0 > 0 /\ skip = 0
    /\ ping_success > 0 /\ ping_fail > 0
    /\ ping_count = ping_success + ping_fail

\* The recorded results that are failures (Timeout, ConnectionError) and
\* those that are successes (an RTT >= 0).
Failures  == {i \in DOMAIN hist : hist[i] \in {RTimeout, RConnError}}
Successes == {i \in DOMAIN hist : hist[i] >= 0}

\* C8: after f recorded failures and s recorded successes the loss ratio is
\* f/(f+s)*100; it is 0 when f = 0; with f = s = 0 the loss is 0 and the
\* statistics are zero, and no division by zero has happened.
C8_LossRatio ==
    LET f == Cardinality(Failures)
        s == Cardinality(Successes)
    IN  /\ f + s > 0 =>
             ping_loss = FMul(FDiv(IntToD(f), IntToD(f + s)), Hundred)
        /\ f = 0 => ping_loss = 0
        /\ f + s = 0 => Stats = ZeroStats
        /\ NaN \notin {ping_loss, stat_ave, jitter}

\* The RTTs of the recorded successes, in order of arrival.
SuccessRtts == SelectSeq(hist, LAMBDA r : r >= 0)

RECURSIVE SumSeq(_)
SumSeq(q) == IF q = <<>> THEN 0 ELSE Head(q) + SumSeq(Tail(q))

MinSeq(q) == CHOOSE m \in {q[i] : i \in DOMAIN q} :
                 \A i \in DOMAIN q : m <= q[i]
MaxSeq(q) == CHOOSE m \in {q[i] : i \in DOMAIN q} :
                 \A i \in DOMAIN q : m >= q[i]

\* The orders in which the elements of q can arrive.
Orders(q) ==
    LET n == Len(q)
        P == {p \in [1..n -> 1..n] : \A i, j \in 1..n : p[i] = p[j] => i = j}
    IN  {[i \in 1..n |-> q[p[i]]] : p \in P}

\* The statistics after the results of q, recorded in order from the start.
RECURSIVE Fold(_)
Fold(q) == IF q = <<>> THEN ZeroStats
           ELSE Update(Fold(SubSeq(q, 1, Len(q) - 1)), q[Len(q)])

\* C9: after N >= 1 recorded successes with RTTs r_1..r_N, min_rtt, max_rtt
\* and avg_rtt are min(r_i), max(r_i) and sum(r_i)/N, and every order of
\* arrival of the same RTTs gives the same three values.
C9_MinMaxAvgOrderFree ==
    LET r == SuccessRtts
    IN  Len(r) >= 1 =>
          /\ stat_min = MinSeq(r)
          /\ stat_max = MaxSeq(r)
          /\ stat_ave = RoundQ[SumSeq(r), Len(r)]
          /\ \A o \in Orders(r) :
                /\ Fold(o).stat_min = stat_min
                /\ Fold(o).stat_max = stat_max
                /\ Fold(o).stat_ave = stat_ave

\* C10 as claimed: with success_count > 0, min_rtt <= avg_rtt <= max_rtt.
C10_MinAveMax ==
    ping_success > 0 => (stat_min <= stat_ave /\ stat_ave <= stat_max)

\* C10 as amended: with N = success_count > 0 and u = 2^-MantBits the unit
\* roundoff of the double format, min_rtt <= max_rtt and
\* min_rtt * (1 - 2Nu) <= avg_rtt <= max_rtt * (1 + 2Nu): the average
\* leaves [min_rtt, max_rtt] by no more than the rounding of the N - 1
\* additions of the running sum and of the division.
C10_MinAveMaxRounded ==
    LET N == ping_success
        U == Pow2[MantBits]
    IN  N > 0 =>
          /\ stat_min <= stat_max
          /\ stat_min * (U - 2 * N) <= stat_ave * U
          /\ stat_ave * U <= stat_max * (U + 2 * N)

C10_Witness ==
    /\ ping_success = 3 /\ ping_fail = 0
    /\ stat_min = stat_max
    /\ stat_ave # stat_min

\* The sum of the absolute differences between neighbours of q.
RECURSIVE SumAbsDiff(_)
SumAbsDiff(q) ==
    IF Len(q) < 2 THEN 0
    ELSE LET a == q[1]
             b == q[2]
         IN  (IF a >= b THEN a - b ELSE b - a) + SumAbsDiff(Tail(q))

\* The outcomes Success(5), Timeout, Success(15), ConnectionError,
\* Success(10) of the round-trip example, as values returned by tcp_ping.
RoundTrip ==
    <<IntToD(5), RTimeout, IntToD(15), RConnError, IntToD(10)>>

\* C11: jitter_avg is the mean absolute difference between consecutive
\* successful RTTs of the recorded results, failures in between adding no
\* term and not resetting prev_rtt; [10,10,20] gives 5, [10,20,10] gives 10,
\* and the round-trip example gives total 5, success 3, fail 2, loss 40.0,
\* min 5, max 15, avg 10 and jitter_avg 7.5.
C11_JitterIsMeanAbsDiff ==
    LET r == SuccessRtts
        e == Fold(RoundTrip)
    IN  /\ Len(r) >= 2 => jitter = RoundQ[SumAbsDiff(r), Len(r) - 1]
        /\ hist = <<IntToD(10), IntToD(10), IntToD(20)>>
             => jitter = IntToD(5)
        /\ hist = <<IntToD(10), IntToD(20), IntToD(10)>>
             => jitter = IntToD(10)
        /\ e.ping_count = 5 /\ e.ping_success = 3 /\ e.ping_fail = 2
        /\ e.ping_loss = IntToD(40)
        /\ e.stat_min = IntToD(5) /\ e.stat_max = IntToD(15)
        /\ e.stat_ave = IntToD(10)
        /\ 2 * e.jitter = IntToD(15)

\* The step of main that takes the result of a probe inside the skip window.
SkipsNow == pc = "record" /\ pc' # "record" /\ skip # 0

\* C12: with an initial skip count k, each of the first k results, whatever
\* its type, only takes one from skip and leaves every statistic and the
\* jitter state as they are; skip never goes below zero; and the statistics
\* start with result k + 1: after n results skip is k - n and nothing is
\* counted while n <= k, and n - k results are counted afterwards.
C12_SkipWindow ==
    /\ [][SkipsNow => (skip' = skip - 1 /\ UNCHANGED <<stats, hist>>)]_vars
    /\ [][RecordsNow => (skip' = 0 /\ ping_count' = ping_count + 1)]_vars
    /\ [](skip >= 0)
    /\ [](IF seq <= skip0
          THEN skip = skip0 - seq /\ Stats = ZeroStats
          ELSE skip = 0 /\ ping_count = seq - skip0)

\* A ConnectionError was taken inside the skip window and left no trace.
C12_Witness ==
    /\ skip0 = 1 /\ skip = 0 /\ seq = 1
    /\ rtt = RConnError /\ pc = "sleep"
    /\ Stats = ZeroStats /\ hist = <<>>

\* The step on which termination is requested: signal_handler sets the flag.
Requested == ~terminate /\ terminate'

\* The run has left the loop: the summary is printed, or the program ended.
LoopLeft == pc \in {"summary", "done", "exited"}

\* C13: a termination request that arrives while a probe is in flight does
\* not end the probe, which goes on to its own result, and that result is
\* recorded before the loop test reads the flag; with the flag set the loop
\* test starts no probe; and the run then comes to leave the loop.
C13_ProbeCompletesThenStops ==
    /\ [][(InProbe /\ Requested) => (pc' = pc /\ rtt' = rtt)]_vars
    /\ [][(pc = "loop" /\ terminate) => pc' = "summary"]_vars
    /\ [][(InProbe /\ ~InProbe' /\ pc' # "exited") => pc' = "record"]_vars
    /\ (terminate ~> LoopLeft)

\* The step of main that records a Timeout or a ConnectionError.
RecordsFailure == RecordsNow /\ rtt \in {RTimeout, RConnError}

\* The loop test with no termination requested and probes left to do.
GoesOn == pc = "loop" /\ ~terminate /\ (count = 0 \/ countdown # 0)

\* C14: a Timeout or ConnectionError never ends the run.  Recording it adds
\* to fail_count (and total_count and the loss ratio) and changes nothing
\* else, and the program keeps running; the loop test that follows starts
\* the next probe when termination is not requested and the count is not
\* exhausted; and the failures recorded so far never keep that probe from
\* getting its socket.
C14_FailureNeverEndsRun ==
    /\ [][RecordsFailure =>
            /\ ping_fail' = ping_fail + 1
            /\ ping_count' = ping_count + 1
            /\ UNCHANGED <<ping_success, stat_sum, stat_min, stat_max,
                           stat_ave, stat_count, prev_rtt, jitter,
                           jitter_total, jitter_count>>
            /\ pc' \in {"sleep", "loop"}
            /\ exit_status' = Running]_vars
    /\ [][(GoesOn /\ pc' # pc) => pc' = "socket"]_vars
    /\ [](pc = "socket" => DescriptorFree)

\* main has left the loop by its test and prints the summary.
AtSummary == pc \in {"summary", "done"}

\* C15: with a count N > 0 and no termination request the loop makes exactly
\* N probes and then ends with the summary, sleeping after every probe but
\* the last; with count 0 it ends only by a termination request.  Until the
\* count is exhausted or termination is requested the loop keeps probing:
\* the loop test starts the next probe, and that probe can be made.
C15_CountedOrUnlimited ==
    /\ []((AtSummary /\ ~terminate) => (count > 0 /\ seq = count))
    /\ [](count > 0 => seq <= count)
    /\ [][(pc = "record" /\ pc' # pc) =>
            ((pc' = "sleep") <=> (count = 0 \/ seq' < count))]_vars
    /\ [][(pc = "sleep" /\ pc' # pc) => pc' = "loop"]_vars
    /\ [][(GoesOn /\ pc' # pc) => pc' = "socket"]_vars
    /\ [](GoesOn => DescriptorFree)
    /\ ((count > 0) ~> LoopLeft)

\* select found the socket writable and SO_ERROR was read into optval.
FoundWritable == Returned /\ status > 0

\* C16: when the socket became writable after a connect in progress, the
\* probe returns Success (an RTT >= 0) only if the pending error read from
\* the socket is none; and no probe returns Success for a connection that
\* was not established.
C16_SuccessOnlyIfEstablished ==
    /\ (FoundWritable /\ rtt >= 0) => optval = "0"
    /\ (Returned /\ rtt >= 0) => net = "accept"

\* connect returned 0 and the probe has returned: select was never called
\* (errno was not set by this probe).
ConnectedAtOnce == Returned /\ status = 0 /\ errno = "none"

\* C17: when connect fails with an errno other than EINPROGRESS the probe
\* returns ConnectionError (-2) straight from connect, without waiting in
\* select; when connect returns 0 the probe goes to the second clock reading
\* without waiting and returns Success (an RTT >= 0); and when select fails
\* with an errno other than EINTR the probe returns ConnectionError.
C17_ConnectAndWaitFailures ==
    /\ [][(pc = "connect" /\ pc' # pc /\ status' < 0
              /\ errno' # "EINPROGRESS")
            => (pc' = "record" /\ rtt' = RConnError /\ waited' = 0)]_vars
    /\ [][(pc = "connect" /\ pc' # pc /\ status' = 0)
            => (pc' = "stamp" /\ waited' = 0)]_vars
    /\ [](ConnectedAtOnce => (rtt >= 0 /\ waited = 0))
    /\ [][(pc = "select" /\ pc' # pc /\ status' < 0 /\ errno' # "EINTR")
            => (pc' = "record" /\ rtt' = RConnError)]_vars

\* connect itself reported the refusal and the probe returned -2 at once,
\* with a timeout that would have let it wait.
C17_Witness ==
    /\ Returned /\ status < 0 /\ errno = "ECONNREFUSED"
    /\ rtt = RConnError /\ waited = 0 /\ timeout > 0

\* C18: seq advances by one with every probe that returned, skipped or
\* not, and by nothing else: between the iterations of the loop seq is the
\* number of probes made, total_count plus the skipped ones
\* (initial skip - skip).
C18_SeqCountsEveryProbe ==
    /\ [](seq = ping_count + (skip0 - skip))
    /\ [][(Returned /\ pc' # pc) => seq' = seq + 1]_vars
    /\ [][seq' # seq => (Returned /\ pc' # pc)]_vars

\* One probe was skipped, one counted, and seq is 2.
C18_Witness ==
    /\ skip0 = 1 /\ skip = 0 /\ ping_count = 1 /\ seq = 2

\* C19: the jitter bookkeeping follows success_count: jitter_count and
\* jitter are 0 while success_count <= 1, jitter_count is success_count - 1
\* from the first success on, prev_rtt is -1 exactly when success_count is
\* 0, and stat_count equals success_count.
C19_JitterBookkeeping ==
    /\ ping_success <= 1 => (jitter_count = 0 /\ jitter = 0)
    /\ ping_success >= 1 => jitter_count = ping_success - 1
    /\ (prev_rtt = NoPrev) <=> (ping_success = 0)
    /\ stat_count = ping_success

\* Two successes with a failure recorded between them: one jitter term.
C19_Witness ==
    /\ ping_success = 2 /\ ping_fail = 1 /\ hist[2] < 0
    /\ jitter_count = 1 /\ jitter > 0 /\ prev_rtt = hist[3]

====
